---- MODULE Spec2Model ----
(***************************************************************************)
(* Image Processor Pro: the image loader (src/core/image_loader.py), the   *)
(* image processor (src/core/image_processor.py) and the main window       *)
(* (src/ui/main_window.py), which carries its own inline ImageLoader and   *)
(* ImageProcessor classes and never imports the core modules.              *)
(*                                                                         *)
(* numpy arrays are modelled as references into a heap of storages, so     *)
(* that a view (a slice) and a copy are different things.  A pixel is a    *)
(* sequence of channel values (uint8, 0..255).                             *)
(***************************************************************************)
EXTENDS Integers, Sequences, FiniteSets, TLC

VARIABLES
    heap,             \* storage id -> Free or the pixel data of one numpy allocation
    image,            \* MainWindow.image: None or an array reference
    processed_image,  \* MainWindow.processed_image: None or an array reference
    image_label,      \* pixmap shown in MainWindow.image_label (NoPixmap or a pixmap)
    result_label,     \* pixmap shown in MainWindow.result_label
    camera,           \* the capture device: [held]: whether a handle holds it
    last,             \* the last handler that ran, how it ended, its device calls
    buf,              \* library client: the buffer it holds (None or an array reference)
    out,              \* library client: the value the last library call returned
    call              \* library client: the last library call and its arguments

vars == <<heap, image, processed_image, image_label, result_label,
          camera, last, buf, out, call>>

shellVars == <<image, processed_image, image_label, result_label, last>>
clientVars == <<buf, out, call>>

----------------------------------------------------------------------------
(* Bounds of the model *)

\* Width and height of the images the decoder produces.
ImgW == 11
ImgH == 11
\* Number of storages the heap can hold at one time.
MaxStores == 5

(* Program constants *)

\* uint8 arithmetic is modulo 2^8.
U8 == 256
\* The labels' size: setMinimumSize(600, 450).
LabelW == 600
LabelH == 450
\* Smallest crop span accepted by the crop dialog.
MinCrop == 10
\* Largest brightness value accepted by the brightness dialog.
MaxBrightness == 100
\* Thickness handed to cv2.circle.
Thickness == 2

----------------------------------------------------------------------------
(* Python values *)

\* Every Python value is a record, so that any two of them can be compared.
None == [kind |-> "None"]
Free == [kind |-> "Free"]
NoPixmap == [kind |-> "NoPixmap"]

\* The text of a line edit: <<n>> when int() parses it to n, <<>> when int()
\* raises ValueError (e.g. the empty text).
Text(n) == <<n>>
Unparsable == <<>>

Raised(exc) == [kind |-> "raised", exc |-> exc]
IsRaised(v) == v.kind = "raised"
IsArray(v) == v.kind = "ndarray"

Min(a, b) == IF a <= b THEN a ELSE b
Max(a, b) == IF a >= b THEN a ELSE b
Max3(p) == Max(p[1], Max(p[2], p[3]))
Min3(p) == Min(p[1], Min(p[2], p[3]))

StoreIds == 1..MaxStores

\* numpy: ndarray.shape, as numpy reports it: <<h, w>> or <<h, w, c>>.
Height(a) == a.shape[1]
Width(a) == a.shape[2]
NDim(a) == Len(a.shape)
Channels(a) == IF NDim(a) = 2 THEN 1 ELSE a.shape[3]
IsEmpty(a) == Height(a) = 0 \/ Width(a) = 0 \/ Channels(a) = 0

\* The pixel of array a (in heap h) at row y, column x: a sequence of channels.
At(h, a, y, x) == h[a.store].px[a.y0 + y][a.x0 + x]

\* The contents of array a as a value: rows of columns of pixels.
Contents(h, a) ==
    [y \in 0..(Height(a) - 1) |-> [x \in 0..(Width(a) - 1) |-> At(h, a, y, x)]]

\* A fresh allocation holding pixel data px; the result is the new heap and
\* the array that owns the storage.
Alloc(h, shape, px) ==
    LET id == CHOOSE i \in StoreIds :
                  h[i] = Free /\ \A j \in StoreIds : h[j] = Free => i <= j
    IN  [heap |-> [h EXCEPT ![id] = [kind |-> "data", px |-> px]],
         val  |-> [kind |-> "ndarray", store |-> id, y0 |-> 0, x0 |-> 0,
                   shape |-> shape]]

\* Reference counting: a storage no array refers to is freed.
Collect(h, roots) ==
    [i \in StoreIds |->
        IF \E r \in roots : IsArray(r) /\ r.store = i THEN h[i] ELSE Free]

----------------------------------------------------------------------------
(* OpenCV and numpy, as the program uses them *)

cv2_error == Raised("cv2.error")
IndexError == Raised("IndexError")
ValueError == Raised("ValueError")
Exception == Raised("Exception")

\* n / d rounded to the nearest integer (d > 0, n >= 0).
Round(n, d) == (2 * n + d) \div (2 * d)

\* cv2.COLOR_GRAY2BGR and cv2.COLOR_GRAY2RGB: the value in all three channels.
GRAY2BGR(p) == <<p[1], p[1], p[1]>>
\* cv2.COLOR_BGRA2BGR: the first three channels, the fourth dropped.
BGRA2BGR(p) == <<p[1], p[2], p[3]>>
\* cv2.COLOR_BGR2RGB and cv2.COLOR_BGRA2RGB: the first and third channel swapped.
BGR2RGB(p) == <<p[3], p[2], p[1]>>

\* cv2.COLOR_BGR2HSV on uint8: H in 0..179, S and V in 0..255; V is the
\* largest channel.  OpenCV's fixed-point tables (shift 12).
sdiv_table(v) == IF v = 0 THEN 0 ELSE Round(255 * 4096, v)
hdiv_table(d) == IF d = 0 THEN 0 ELSE Round(180 * 4096, 6 * d)
BGR2HSV(p) ==
    LET b == p[1]
        g == p[2]
        r == p[3]
        v == Max3(<<b, g, r>>)
        diff == v - Min3(<<b, g, r>>)
        s == (diff * sdiv_table(v) + 2048) \div 4096
        h0 == IF v = r THEN g - b
              ELSE IF v = g THEN b - r + 2 * diff
              ELSE r - g + 4 * diff
        h1 == (h0 * hdiv_table(diff) + 2048) \div 4096
        h == IF h1 < 0 THEN h1 + 180 ELSE h1
    IN  <<h, s, v>>

\* cv2.COLOR_HSV2BGR on uint8: the sector formula; one channel of the result
\* is V itself.
HSV2BGR(p) ==
    LET h == p[1] % 180
        s == p[2]
        v == p[3]
        sector == h \div 30
        f == h % 30
        tab == <<v,
                 Round(v * (255 - s), 255),
                 Round(v * (255 * 30 - s * f), 255 * 30),
                 Round(v * (255 * 30 - s * (30 - f)), 255 * 30)>>
        sector_data == <<<<1, 3, 0>>, <<1, 0, 2>>, <<3, 0, 1>>,
                         <<0, 2, 1>>, <<0, 1, 3>>, <<2, 1, 0>>>>
        sd == sector_data[sector + 1]
    IN  IF s = 0 THEN <<v, v, v>>
        ELSE <<tab[sd[1] + 1], tab[sd[2] + 1], tab[sd[3] + 1]>>

\* The channel counts cv2.cvtColor accepts for a conversion code.
SourceChannels(code) ==
    CASE code \in {"GRAY2BGR", "GRAY2RGB"} -> {1}
      [] code \in {"BGRA2BGR", "BGR2RGB", "BGRA2RGB", "BGR2HSV"} -> {3, 4}
      [] code = "HSV2BGR" -> {3}

ConvertPixel(code, p) ==
    CASE code \in {"GRAY2BGR", "GRAY2RGB"} -> GRAY2BGR(p)
      [] code = "BGRA2BGR" -> BGRA2BGR(p)
      [] code \in {"BGR2RGB", "BGRA2RGB"} -> BGR2RGB(p)
      [] code = "BGR2HSV" -> BGR2HSV(p)
      [] code = "HSV2BGR" -> HSV2BGR(p)

\* cv2.cvtColor(src, code) raises cv2.error for an empty source and for a
\* channel count the code does not accept.
Rejects(src, code) == IsEmpty(src) \/ Channels(src) \notin SourceChannels(code)

\* cv2.cvtColor(src, code): a new 3-channel array, or cv2.error.
cvtColor(h, src, code) ==
    IF Rejects(src, code)
    THEN [heap |-> h, val |-> cv2_error]
    ELSE Alloc(h, <<Height(src), Width(src), 3>>,
               [y \in 0..(Height(src) - 1) |->
                   [x \in 0..(Width(src) - 1) |->
                       ConvertPixel(code, At(h, src, y, x))]])

----------------------------------------------------------------------------
(* The files on disk and the decoder, cv2.imread *)

Rows == 0..(ImgH - 1)
Cols == 0..(ImgW - 1)

\* What each file decodes to with its own channel layout kept.
RawFile(path) ==
    CASE path = "color.png" ->
            [shape |-> <<ImgH, ImgW, 3>>,
             px |-> [y \in Rows |-> [x \in Cols |->
                      <<(x * 20) % U8, (y * 20 + 10) % U8, (200 + x + y) % U8>>]]]
      [] path = "gray.png" ->
            [shape |-> <<ImgH, ImgW>>,
             px |-> [y \in Rows |-> [x \in Cols |-> <<(x * 25 + y) % U8>>]]]
      [] path = "rgba.png" ->
            [shape |-> <<ImgH, ImgW, 4>>,
             px |-> [y \in Rows |-> [x \in Cols |->
                      <<x, (y * 3) % U8, 255 - x, ((x + y) * 10) % U8>>]]]
      [] path = "pair.tif" ->
            [shape |-> <<ImgH, ImgW, 2>>,
             px |-> [y \in Rows |-> [x \in Cols |-> <<(x + y) % U8, (x * 9) % U8>>]]]
      [] OTHER -> None

\* The paths a caller can hand to the loader; "broken.png" does not decode.
Files == {"color.png", "gray.png", "rgba.png", "pair.tif", "broken.png"}

\* cv2.IMREAD_COLOR (the default flag): the decoder itself converts to 3
\* channels: a single channel is replicated, an alpha channel is dropped.
ToColor(p) == IF Len(p) <= 2 THEN <<p[1], p[1], p[1]>> ELSE <<p[1], p[2], p[3]>>

\* cv2.imread(path, flags): None when the file does not decode.
imread(h, path, flags) ==
    LET raw == RawFile(path)
    IN  IF raw = None THEN [heap |-> h, val |-> None]
        ELSE IF flags = "IMREAD_UNCHANGED" THEN Alloc(h, raw.shape, raw.px)
        ELSE Alloc(h, <<raw.shape[1], raw.shape[2], 3>>,
                   [y \in Rows |-> [x \in Cols |-> ToColor(raw.px[y][x])]])

----------------------------------------------------------------------------
(* src/core/image_loader.py *)

\* A faulty normalize: only the grayscale case is handled, a 4-channel
\* array keeps its alpha.
normalize_gray_only(h, img) ==
    IF NDim(img) = 2 THEN cvtColor(h, img, "GRAY2BGR")
    ELSE [heap |-> h, val |-> img]

\* The conversion to a 3-channel image inside load_image: a 2-dimensional
\* array is promoted, a 4-channel array loses its alpha, anything else is
\* returned as it is.
normalize(h, img) ==
    IF NDim(img) = 2 THEN cvtColor(h, img, "GRAY2BGR")
    ELSE IF img.shape[3] = 4 THEN cvtColor(h, img, "BGRA2BGR")
    ELSE [heap |-> h, val |-> img]

\* ImageLoader.load_image(path): the image, or None after any exception.
load_image(h, path) ==
    LET read == imread(h, path, "IMREAD_UNCHANGED")
        norm == normalize(read.heap, read.val)
    IN  IF read.val = None THEN [heap |-> h, val |-> None]
        ELSE IF IsRaised(norm.val) THEN [heap |-> h, val |-> None]
        ELSE norm

----------------------------------------------------------------------------
(* The capture device, cv2.VideoCapture(0) *)

CamRows == 0..(ImgH - 1)
CamCols == 0..ImgW

\* The frames the device delivers: colour by default, a single plane when
\* the device or its backend delivers unconverted data.
FrameKinds == {"bgr", "mono"}
CamFrame(kind) ==
    IF kind = "bgr"
    THEN [shape |-> <<ImgH, ImgW + 1, 3>>,
          px |-> [y \in CamRows |-> [x \in CamCols |->
                   <<255, (x * y) % U8, (128 + x) % U8>>]]]
    ELSE [shape |-> <<ImgH, ImgW + 1>>,
          px |-> [y \in CamRows |-> [x \in CamCols |-> <<(x * 7 + y * 3) % U8>>]]]

\* What the device does during one capture: whether it opens, how the one
\* read ends ("frame", "fail": ret is False, "raise": read raises), which
\* frame it delivers, and whether the runtime has already finalized a handle
\* that was dropped without release() when the call ends.
Device(opens, read, frame, finalized) ==
    [opens |-> opens, read |-> read, frame |-> frame, finalized |-> finalized]
Devices ==
    {Device(FALSE, "fail", "bgr", TRUE), Device(TRUE, "fail", "bgr", TRUE),
     Device(TRUE, "raise", "bgr", TRUE), Device(TRUE, "raise", "bgr", FALSE)}
    \cup {Device(TRUE, "frame", k, TRUE) : k \in FrameKinds}

\* src/core/image_loader.py, the try block of capture_from_camera:
\* VideoCapture(0), isOpened(), read(), release().  The result is the camera
\* afterwards and how the block ended: a frame, or the exception raised.
CaptureBody(h, dev) ==
    IF ~dev.opens
    THEN [heap |-> h, val |-> Exception,
          held |-> FALSE, log |-> <<"VideoCapture", "isOpened">>]
    ELSE IF dev.read = "raise"
    THEN [heap |-> h, val |-> cv2_error,
          held |-> ~dev.finalized,
          log |-> <<"VideoCapture", "isOpened", "read">>]
    ELSE IF dev.read = "fail"
    THEN [heap |-> h, val |-> Exception,
          held |-> FALSE,
          log |-> <<"VideoCapture", "isOpened", "read", "release">>]
    ELSE LET fr == CamFrame(dev.frame)
             a == Alloc(h, fr.shape, fr.px)
         IN  [heap |-> a.heap, val |-> a.val,
              held |-> FALSE,
              log |-> <<"VideoCapture", "isOpened", "read", "release">>]

\* src/core/image_loader.py, ImageLoader.capture_from_camera(): the frame,
\* or None after any exception.
capture_from_camera(h, dev) ==
    LET r == CaptureBody(h, dev)
    IN  IF IsRaised(r.val) THEN [r EXCEPT !.val = None] ELSE r

----------------------------------------------------------------------------
(* src/core/image_processor.py *)

\* Python's slice lo:hi over an axis of length n: negative bounds count
\* from the end, and both bounds are clamped to the axis.
SliceBound(i, n) == IF i < 0 THEN Max(i + n, 0) ELSE Min(i, n)
SliceStart(lo, hi, n) == SliceBound(lo, n)
SliceLen(lo, hi, n) == Max(SliceBound(hi, n) - SliceBound(lo, n), 0)

\* numpy basic slicing image[y1:y2, x1:x2]: a view on the same storage.
View(a, y1, y2, x1, x2) ==
    [a EXCEPT !.y0 = a.y0 + SliceStart(y1, y2, Height(a)),
              !.x0 = a.x0 + SliceStart(x1, x2, Width(a)),
              !.shape = [a.shape EXCEPT ![1] = SliceLen(y1, y2, Height(a)),
                                        ![2] = SliceLen(x1, x2, Width(a))]]

\* A faulty copy: the array itself instead of a copy of it.
copy_by_reference(h, a) == [heap |-> h, val |-> a]

\* ndarray.copy(): a new storage with the same contents.
Copy(h, a) == Alloc(h, a.shape, Contents(h, a))

\* cv2.merge of three planes: plane k of the result is channel src[k] of
\* the image, or zeros (np.zeros_like) where src[k] = 0.
Merge(h, img, src) ==
    Alloc(h, <<Height(img), Width(img), 3>>,
          [y \in 0..(Height(img) - 1) |-> [x \in 0..(Width(img) - 1) |->
              [k \in 1..3 |-> IF src[k] = 0 THEN 0 ELSE At(h, img, y, x)[src[k]]]]])

\* image[:, :, c] raises IndexError on a 2-dimensional array and on a
\* channel the array does not have.
HasPlane(img, c) == NDim(img) = 3 /\ c < img.shape[3]

\* A faulty extract_channel: the planes are indexed in RGB order.
extract_channel_rgb_order(h, img, channel) ==
    IF ~HasPlane(img, 2) THEN [heap |-> h, val |-> IndexError]
    ELSE IF channel = 0 THEN Merge(h, img, <<3, 0, 0>>)
    ELSE IF channel = 1 THEN Merge(h, img, <<0, 2, 0>>)
    ELSE Merge(h, img, <<0, 0, 1>>)

\* ImageProcessor.extract_channel(image, channel)
extract_channel(h, img, channel) ==
    IF ~HasPlane(img, 0) THEN [heap |-> h, val |-> IndexError]
    ELSE IF channel = 0 THEN Merge(h, img, <<1, 0, 0>>)
    ELSE IF channel = 1
         THEN IF HasPlane(img, 1) THEN Merge(h, img, <<0, 2, 0>>)
              ELSE [heap |-> h, val |-> IndexError]
    ELSE IF HasPlane(img, 2) THEN Merge(h, img, <<0, 0, 3>>)
         ELSE [heap |-> h, val |-> IndexError]

\* A faulty crop_image: the two axes of the slice are exchanged.
crop_image_axes_swapped(h, img, x1, y1, x2, y2) ==
    [heap |-> h, val |-> View(img, x1, x2, y1, y2)]

\* ImageProcessor.crop_image(image, x1, y1, x2, y2)
crop_image(h, img, x1, y1, x2, y2) ==
    [heap |-> h, val |-> View(img, y1, y2, x1, x2)]

\* uint8 + int in 0..255 is uint8: the sum is reduced modulo 2^8.
AddU8(v, value) == (v + value) % U8
\* np.clip(a, lo, hi)
Clip(v, lo, hi) == Min(Max(v, lo), hi)

\* hsv[:, :, 2] = np.clip(hsv[:, :, 2] + value, 0, 255): written into the
\* array's own storage.
BrightenInPlace(h, a, value) ==
    LET old == h[a.store].px
        inside(y, x) == /\ y >= a.y0 /\ y < a.y0 + Height(a)
                        /\ x >= a.x0 /\ x < a.x0 + Width(a)
        new(p) == <<p[1], p[2], Clip(AddU8(p[3], value), 0, 255)>>
    IN  [h EXCEPT ![a.store].px =
            [y \in DOMAIN old |-> [x \in DOMAIN old[y] |->
                IF inside(y, x) THEN new(old[y][x]) ELSE old[y][x]]]]

\* ImageProcessor.adjust_brightness(image, value)
adjust_brightness(h, img, value) ==
    LET hsv == cvtColor(h, img, "BGR2HSV")
    IN  IF IsRaised(hsv.val) THEN [heap |-> h, val |-> hsv.val]
        ELSE cvtColor(BrightenInPlace(hsv.heap, hsv.val, value), hsv.val, "HSV2BGR")

\* The colour handed to cv2.circle, (0, 0, 255), as a 4-component scalar.
CircleColor == <<0, 0, 255, 0>>

\* The pixels of the outline of thickness Thickness: those whose distance
\* from the centre differs from the radius by at most half the thickness.
OnStroke(y, x, cy, cx, radius) ==
    LET d2 == (x - cx) * (x - cx) + (y - cy) * (y - cy)
        half == Thickness \div 2
        inner == Max(radius - half, 0)
        outer == radius + half
    IN  inner * inner <= d2 /\ d2 <= outer * outer

\* cv2.circle(img, (x, y), radius, color, thickness): drawn into the array's
\* own storage, clipped to the array.
CircleInPlace(h, a, cx, cy, radius) ==
    LET old == h[a.store].px
        inside(y, x) == /\ y >= a.y0 /\ y < a.y0 + Height(a)
                        /\ x >= a.x0 /\ x < a.x0 + Width(a)
        new(p) == [k \in 1..Len(p) |-> CircleColor[k]]
    IN  [h EXCEPT ![a.store].px =
            [y \in DOMAIN old |-> [x \in DOMAIN old[y] |->
                IF inside(y, x) /\ OnStroke(y - a.y0, x - a.x0, cy, cx, radius)
                THEN new(old[y][x]) ELSE old[y][x]]]]

\* ImageProcessor.draw_circle(image, x, y, radius)
draw_circle(h, img, x, y, radius) ==
    LET result == Copy(h, img)
    IN  IF radius < 0 THEN [heap |-> h, val |-> cv2_error]
        ELSE [heap |-> CircleInPlace(result.heap, result.val, x, y, radius),
              val |-> result.val]

----------------------------------------------------------------------------
(* src/ui/main_window.py: the inline ImageLoader and ImageProcessor *)

\* A faulty loader: None is returned when the file does not decode, as the
\* loader of src/core/image_loader.py does.
ui_load_image_or_none(h, file_path) == imread(h, file_path, "IMREAD_COLOR")

\* ImageLoader.load_image(file_path): cv2.imread with its default flag;
\* raises when the file does not decode.
ui_load_image(h, file_path) ==
    LET read == imread(h, file_path, "IMREAD_COLOR")
    IN  IF read.val = None THEN [heap |-> h, val |-> Exception] ELSE read

\* A faulty capture: a read that reports failure is tried once more.
ui_capture_retrying(h, dev) ==
    IF ~dev.opens
    THEN [heap |-> h, val |-> Exception,
          held |-> FALSE, log |-> <<"VideoCapture", "isOpened">>]
    ELSE IF dev.read = "raise"
    THEN [heap |-> h, val |-> cv2_error,
          held |-> ~dev.finalized,
          log |-> <<"VideoCapture", "isOpened", "read">>]
    ELSE IF dev.read = "fail"
    THEN [heap |-> h, val |-> Exception,
          held |-> FALSE,
          log |-> <<"VideoCapture", "isOpened", "read", "read", "release">>]
    ELSE LET fr == CamFrame(dev.frame)
             a == Alloc(h, fr.shape, fr.px)
         IN  [heap |-> a.heap, val |-> a.val,
              held |-> FALSE,
              log |-> <<"VideoCapture", "isOpened", "read", "release">>]

\* ImageLoader.capture_from_camera(): the frame, or the exception raised.
ui_capture_from_camera(h, dev) ==
    IF ~dev.opens
    THEN [heap |-> h, val |-> Exception,
          held |-> FALSE, log |-> <<"VideoCapture", "isOpened">>]
    ELSE IF dev.read = "raise"
    THEN [heap |-> h, val |-> cv2_error,
          held |-> ~dev.finalized,
          log |-> <<"VideoCapture", "isOpened", "read">>]
    ELSE IF dev.read = "fail"
    THEN [heap |-> h, val |-> Exception,
          held |-> FALSE,
          log |-> <<"VideoCapture", "isOpened", "read", "release">>]
    ELSE LET fr == CamFrame(dev.frame)
             a == Alloc(h, fr.shape, fr.px)
         IN  [heap |-> a.heap, val |-> a.val,
              held |-> FALSE,
              log |-> <<"VideoCapture", "isOpened", "read", "release">>]

\* ImageProcessor.extract_channel(image, channel_index)
ui_extract_channel(h, img, channel_index) ==
    IF img = None THEN [heap |-> h, val |-> ValueError]
    ELSE IF ~HasPlane(img, 0) THEN [heap |-> h, val |-> IndexError]
    ELSE IF channel_index = 0 THEN Merge(h, img, <<1, 0, 0>>)
    ELSE IF channel_index = 1
         THEN IF HasPlane(img, 1) THEN Merge(h, img, <<0, 2, 0>>)
              ELSE [heap |-> h, val |-> IndexError]
    ELSE IF HasPlane(img, 2) THEN Merge(h, img, <<0, 0, 3>>)
         ELSE [heap |-> h, val |-> IndexError]

\* ImageProcessor.crop_image(image, x1, y1, x2, y2)
ui_crop_image(h, img, x1, y1, x2, y2) ==
    [heap |-> h, val |-> View(img, y1, y2, x1, x2)]

\* ImageProcessor.adjust_brightness(image, value)
ui_adjust_brightness(h, img, value) ==
    LET hsv == cvtColor(h, img, "BGR2HSV")
    IN  IF IsRaised(hsv.val) THEN [heap |-> h, val |-> hsv.val]
        ELSE cvtColor(BrightenInPlace(hsv.heap, hsv.val, value), hsv.val, "HSV2BGR")

\* ImageProcessor.draw_circle(image, x, y, radius)
ui_draw_circle(h, img, x, y, radius) ==
    LET result == Copy(h, img)
    IN  IF radius < 0 THEN [heap |-> h, val |-> cv2_error]
        ELSE [heap |-> CircleInPlace(result.heap, result.val, x, y, radius),
              val |-> result.val]

----------------------------------------------------------------------------
(* src/ui/main_window.py: MainWindow *)

\* QPixmap.scaled(w, h, Qt.KeepAspectRatio, ...): the size of the result.
ScaledSize(w, h) ==
    LET rw == (LabelH * w) \div h
    IN  IF rw <= LabelW THEN <<rw, LabelH>> ELSE <<LabelW, (LabelW * h) \div w>>

\* The conversion display_image applies before it builds the QImage: the
\* code of cv2.cvtColor, or the ValueError it raises itself.
DisplayCode(img) ==
    IF img = None THEN "ValueError"
    ELSE IF NDim(img) = 3
         THEN IF img.shape[3] = 3 THEN "BGR2RGB"
              ELSE IF img.shape[3] = 4 THEN "BGRA2RGB"
              ELSE "ValueError"
    ELSE "GRAY2RGB"

\* MainWindow.display_image(image, label): the pixmap the label shows
\* afterwards.  Every exception is caught inside (a message is shown) and
\* leaves the label as it was.  Of the pixmap only the scaled size is kept.
display_image(img, label) ==
    LET code == DisplayCode(img)
        size == ScaledSize(Width(img), Height(img))
    IN  IF code = "ValueError" THEN [ok |-> FALSE, pixmap |-> label]
        ELSE IF Rejects(img, code) THEN [ok |-> FALSE, pixmap |-> label]
        ELSE [ok |-> TRUE,
              pixmap |-> [kind |-> "pixmap", w |-> size[1], h |-> size[2]]]

\* The storages still referred to once a handler has returned.
Settle(h, img, processed) == Collect(h, {img, processed, buf, out})

\* The heap a handler allocates in.  Storage ids are names, not addresses:
\* the storage that only the slot about to be overwritten refers to gives
\* up its name before the handler allocates, so that names are reused.
ForImage == Settle(heap, None, processed_image)
ForProcessed == Settle(heap, image, None)

\* The record of a library call: its name and arguments.
Called(fn, args) == [fn |-> fn, args |-> args]

\* The record of a handler: its name, how it ended, its device calls and,
\* for a capture, what the device did; for a transform that stored its
\* result, the arguments of the transform.
Ended(op, outcome) == [op |-> op, outcome |-> outcome, log |-> <<>>]
Transformed(op, args, outcome) ==
    [op |-> op, outcome |-> outcome, log |-> <<>>, args |-> args]
Captured(dev, outcome, log) ==
    [op |-> "capture_from_camera", outcome |-> outcome, log |-> log, dev |-> dev]

\* QIntValidator(0, top) on a line edit: a number with no more digits than
\* top can stand in the field, whether or not it is in range; a sign cannot.
Digits(n) == IF n < 10 THEN 1 ELSE IF n < 100 THEN 2 ELSE 3
Typable(n, top) == n >= 0 /\ Digits(n) <= Digits(top)

\* The paths the file dialog can return (when it is cancelled the handler
\* does nothing).
Picked == {"color.png", "broken.png"}

\* MainWindow.load_image()
MainWindow_load_image ==
    /\ \E file_name \in Picked :
        LET loaded == ui_load_image(ForImage, file_name)
            shown == display_image(loaded.val, image_label)
        IN  IF IsRaised(loaded.val)
            THEN /\ last' = Ended("load_image", "failed")
                 /\ UNCHANGED <<heap, image, image_label>>
            ELSE /\ image' = loaded.val
                 /\ image_label' = shown.pixmap
                 /\ heap' = Settle(loaded.heap, loaded.val, processed_image)
                 /\ last' = Ended("load_image",
                                  IF shown.ok THEN "ok" ELSE "display_failed")
    /\ UNCHANGED <<processed_image, result_label, camera, clientVars>>

\* MainWindow.capture_from_camera()
MainWindow_capture_from_camera ==
    /\ \E dev \in Devices :
        LET got == ui_capture_from_camera(ForImage, dev)
            shown == display_image(got.val, image_label)
        IN  /\ camera' = [held |-> got.held]
            /\ IF IsRaised(got.val)
               THEN /\ last' = Captured(dev, "failed", got.log)
                    /\ UNCHANGED <<heap, image, image_label>>
               ELSE /\ image' = got.val
                    /\ image_label' = shown.pixmap
                    /\ heap' = Settle(got.heap, got.val, processed_image)
                    /\ last' = Captured(dev,
                                        IF shown.ok THEN "ok" ELSE "display_failed",
                                        got.log)
    /\ UNCHANGED <<processed_image, result_label, clientVars>>

\* The indices of the channel combo box.
ComboIndices == 0..2

\* A faulty show_channel: the channel is taken from the processed image
\* when there is one.
show_channel_of_processed ==
    /\ \E channel \in ComboIndices :
        LET input == IF IsArray(processed_image) THEN processed_image ELSE image
            processed == ui_extract_channel(heap, input, channel)
            shown == display_image(processed.val, result_label)
        IN  IF image = None
            THEN /\ last' = Ended("show_channel", "no_image")
                 /\ UNCHANGED <<heap, processed_image, result_label>>
            ELSE IF IsRaised(processed.val)
            THEN /\ last' = Ended("show_channel", "raised")
                 /\ UNCHANGED <<heap, processed_image, result_label>>
            ELSE /\ processed_image' = processed.val
                 /\ result_label' = shown.pixmap
                 /\ heap' = Settle(processed.heap, image, processed.val)
                 /\ last' = Transformed("show_channel", <<channel>>,
                                        IF shown.ok THEN "ok" ELSE "display_failed")
    /\ UNCHANGED <<image, image_label, camera, clientVars>>

\* MainWindow.show_channel()
show_channel ==
    /\ \E channel \in ComboIndices :
        LET processed == ui_extract_channel(ForProcessed, image, channel)
            shown == display_image(processed.val, result_label)
        IN  IF image = None
            THEN /\ last' = Ended("show_channel", "no_image")
                 /\ UNCHANGED <<heap, processed_image, result_label>>
            ELSE IF IsRaised(processed.val)
            THEN /\ last' = Ended("show_channel", "raised")
                 /\ UNCHANGED <<heap, processed_image, result_label>>
            ELSE /\ processed_image' = processed.val
                 /\ result_label' = shown.pixmap
                 /\ heap' = Settle(processed.heap, image, processed.val)
                 /\ last' = Transformed("show_channel", <<channel>>,
                                  IF shown.ok THEN "ok" ELSE "display_failed")
    /\ UNCHANGED <<image, image_label, camera, clientVars>>

\* What a handler leaves behind when it stores nothing: after a rejected
\* input or a caught exception a message is shown, the dialog stays open
\* and is closed by Cancel.
Kept(op, outcome) ==
    /\ last' = Ended(op, outcome)
    /\ UNCHANGED <<heap, processed_image, result_label>>

\* What an accept handler does with the transform's result: it is stored,
\* then displayed, then the dialog is closed.
Stored(op, args, processed) ==
    LET shown == display_image(processed.val, result_label)
    IN  /\ processed_image' = processed.val
        /\ result_label' = shown.pixmap
        /\ heap' = Settle(processed.heap, image, processed.val)
        /\ last' = Transformed(op, args, IF shown.ok THEN "ok" ELSE "display_failed")

\* The texts the four line edits of the crop dialog can hold when OK is
\* pressed: each passes its QIntValidator.
CropTexts(width, height) ==
    {<<Unparsable, Text(0), Text(width), Text(height)>>} \cup
    { <<Text(t[1]), Text(t[2]), Text(t[3]), Text(t[4])>> :
        t \in { t \in {<<0, 0, MinCrop, MinCrop>>,
                       <<1, 0, width + MinCrop, MinCrop>>,
                       <<width + 1, 0, width + MinCrop + 1, MinCrop>>,
                       <<5, 0, 5, MinCrop>>,
                       <<0, 0, MinCrop - 1, MinCrop>>} :
                  /\ Typable(t[1], width - 1) /\ Typable(t[2], height - 1)
                  /\ Typable(t[3], width) /\ Typable(t[4], height) } }

\* accept() of the crop dialog, with the texts t in the line edits
crop_accept(t) ==
    IF \E i \in 1..4 : t[i] = Unparsable
    THEN Kept("crop", "rejected")
    ELSE LET x1 == t[1][1]
             y1 == t[2][1]
             x2 == t[3][1]
             y2 == t[4][1]
         IN  IF x1 >= x2 \/ y1 >= y2 THEN Kept("crop", "rejected")
             ELSE IF (x2 - x1) < MinCrop \/ (y2 - y1) < MinCrop
             THEN Kept("crop", "rejected")
             ELSE Stored("crop", <<x1, y1, x2, y2>>,
                         ui_crop_image(ForProcessed, image, x1, y1, x2, y2))

\* MainWindow.crop_image_dialog(): the modal dialog runs inside the handler,
\* which returns when accept() has closed it or the user has cancelled.
crop_image_dialog ==
    /\ IF image = None THEN Kept("crop", "no_image")
       ELSE \E t \in CropTexts(Width(image), Height(image)) : crop_accept(t)
    /\ UNCHANGED <<image, image_label, camera, clientVars>>

\* The texts the line edit of the brightness dialog can hold.
BrightnessTexts ==
    {Unparsable} \cup
    {Text(v) : v \in {v \in {MaxBrightness, MaxBrightness + 1} :
                          Typable(v, MaxBrightness)}}

\* accept() of the brightness dialog, with the text t in the line edit
brightness_accept(t) ==
    IF t = Unparsable THEN Kept("brightness", "rejected")
    ELSE LET value == t[1]
             processed == ui_adjust_brightness(ForProcessed, image, value)
         IN  IF value < 0 \/ value > MaxBrightness
             THEN Kept("brightness", "rejected")
             ELSE IF IsRaised(processed.val) THEN Kept("brightness", "raised")
             ELSE Stored("brightness", <<value>>, processed)

\* MainWindow.adjust_brightness_dialog()
adjust_brightness_dialog ==
    /\ IF image = None THEN Kept("brightness", "no_image")
       ELSE \E t \in BrightnessTexts : brightness_accept(t)
    /\ UNCHANGED <<image, image_label, camera, clientVars>>

\* The texts the three line edits of the circle dialog can hold.
CircleTexts(width, height) ==
    {<<Text(0), Text(0), Unparsable>>} \cup
    { <<Text(t[1]), Text(t[2]), Text(t[3])>> :
        t \in { t \in {<<5, 5, 3>>, <<5, 5, 0>>, <<0, 5, 5>>,
                       <<width - 1, 5, 3>>, <<5, height - 1, 3>>} :
                  /\ Typable(t[1], width - 1) /\ Typable(t[2], height - 1)
                  /\ Typable(t[3], Min(width, height) \div 2) } }

\* accept() of the circle dialog, with the texts t in the line edits; width
\* and height are those the handler read from the image
circle_accept(t, width, height) ==
    IF \E i \in 1..3 : t[i] = Unparsable
    THEN Kept("circle", "rejected")
    ELSE LET x == t[1][1]
             y == t[2][1]
             radius == t[3][1]
             processed == ui_draw_circle(ForProcessed, image, x, y, radius)
         IN  IF radius <= 0 THEN Kept("circle", "rejected")
             ELSE IF \/ x - radius < 0 \/ x + radius >= width
                     \/ y - radius < 0 \/ y + radius >= height
             THEN Kept("circle", "rejected")
             ELSE IF IsRaised(processed.val) THEN Kept("circle", "raised")
             ELSE Stored("circle", <<x, y, radius>>, processed)

\* MainWindow.draw_circle_dialog()
draw_circle_dialog ==
    /\ IF image = None THEN Kept("circle", "no_image")
       ELSE \E t \in CircleTexts(Width(image), Height(image)) :
                circle_accept(t, Width(image), Height(image))
    /\ UNCHANGED <<image, image_label, camera, clientVars>>

----------------------------------------------------------------------------
(* The main window as a state machine *)

Init ==
    /\ heap = [i \in StoreIds |-> Free]
    /\ image = None
    /\ processed_image = None
    /\ image_label = NoPixmap
    /\ result_label = NoPixmap
    /\ camera = [held |-> FALSE]
    /\ last = Ended("__init__", "ok")
    /\ buf = None
    /\ out = None
    /\ call = Called("none", <<>>)

Next ==
    \/ MainWindow_load_image
    \/ MainWindow_capture_from_camera
    \/ show_channel
    \/ crop_image_dialog
    \/ adjust_brightness_dialog
    \/ draw_circle_dialog

Spec == Init /\ [][Next]_vars

----------------------------------------------------------------------------
(* A client of the two core modules: it loads or captures a buffer, then   *)
(* hands it to one function of ImageProcessor at a time.                   *)


\* The heap the client's calls allocate in: the result of the call before
\* is dropped first, and the buffer too when a new one is acquired.
ForBuf == Collect(heap, {image, processed_image})
ForOut == Collect(heap, {image, processed_image, buf})

\* The result of a transform is kept; its temporaries are dropped.
Returned(fn, args, r) ==
    /\ out' = r.val
    /\ heap' = Collect(r.heap, {image, processed_image, buf, r.val})
    /\ call' = Called(fn, args)
    /\ UNCHANGED <<buf, camera, shellVars>>

\* buf = ImageLoader.load_image(path)
Client_load_image ==
    \E path \in Files :
        LET r == load_image(ForBuf, path)
        IN  /\ buf' = r.val
            /\ out' = None
            /\ heap' = Collect(r.heap, {image, processed_image, r.val})
            /\ call' = Called("load_image", <<path>>)
            /\ UNCHANGED <<camera, shellVars>>

\* buf = ImageLoader.capture_from_camera()
Client_capture_from_camera ==
    \E dev \in Devices :
        LET r == capture_from_camera(ForBuf, dev)
        IN  /\ buf' = r.val
            /\ out' = None
            /\ heap' = Collect(r.heap, {image, processed_image, r.val})
            /\ camera' = [held |-> r.held]
            /\ call' = Called("capture_from_camera", r.log)
            /\ UNCHANGED shellVars

\* The channels the client asks for.
ChannelArgs == 0..2

\* out = ImageProcessor.extract_channel(buf, channel)
Client_extract_channel ==
    /\ buf # None
    /\ \E channel \in ChannelArgs :
        Returned("extract_channel", <<channel>>,
                 extract_channel(ForOut, buf, channel))

\* The regions <<x1, y1, x2, y2>> the client asks for, valid and invalid.
RegionArgs ==
    {<<0, 0, MinCrop, MinCrop>>, <<1, 0, ImgW, MinCrop>>,
     <<0, 0, ImgW, ImgH>>, <<0, 1, MinCrop, ImgH>>,
     <<0, 0, MinCrop - 1, MinCrop>>, <<0, 0, MinCrop, MinCrop - 1>>,
     <<5, 0, 5, MinCrop>>, <<8, 0, 2, MinCrop>>,
     <<1, 0, ImgW + MinCrop, MinCrop>>, <<0, 0, MinCrop, ImgH + MinCrop>>,
     <<ImgW + 2, 0, ImgW + MinCrop + 2, MinCrop>>,
     <<-1, 0, MinCrop, MinCrop>>}

\* out = ImageProcessor.crop_image(buf, x1, y1, x2, y2)
Client_crop_image ==
    /\ buf # None
    /\ \E t \in RegionArgs :
        Returned("crop_image", t, crop_image(ForOut, buf, t[1], t[2], t[3], t[4]))

\* The brightness values the client asks for: within 0..MaxBrightness.
BrightnessArgs == {0, 1, 20, MaxBrightness}

\* out = ImageProcessor.adjust_brightness(buf, value)
Client_adjust_brightness ==
    /\ buf # None
    /\ \E value \in BrightnessArgs :
        Returned("adjust_brightness", <<value>>,
                 adjust_brightness(ForOut, buf, value))

\* The circles <<x, y, radius>> the client asks for, inside and outside.
CircleArgs ==
    {<<5, 5, 3>>, <<5, 5, 4>>, <<0, 5, 5>>, <<0, 0, 5>>, <<5, 5, 0>>,
     <<ImgW, 5, 3>>, <<5, ImgH - 1, 3>>, <<5, 5, ImgH>>}

\* out = ImageProcessor.draw_circle(buf, x, y, radius)
Client_draw_circle ==
    /\ buf # None
    /\ \E t \in CircleArgs :
        Returned("draw_circle", t, draw_circle(ForOut, buf, t[1], t[2], t[3]))

NextCore ==
    \/ Client_load_image
    \/ Client_capture_from_camera
    \/ Client_extract_channel
    \/ Client_crop_image
    \/ Client_adjust_brightness
    \/ Client_draw_circle

CoreSpec == Init /\ [][NextCore]_vars

----------------------------------------------------------------------------
(* Properties of the core functions, checked under CoreSpec *)

\* The pixel positions of an array.
Positions(a) == (0..(Height(a) - 1)) \X (0..(Width(a) - 1))

\* A canonical buffer: 3-dimensional with exactly 3 channels.
IsCanonical(a) == IsArray(a) /\ NDim(a) = 3 /\ a.shape[3] = 3

\* The value channel of a pixel in the hue-saturation-value decomposition.
ValueChannel(p) == Max3(p)

\* C1: adjust_brightness never wraps around: for every pixel with value
\* channel V and every delta in 0..100 the value channel of the result is
\* min(255, V + delta); the sum is not reduced modulo 256 before the clamp.
C1_BrightnessSaturates ==
    (call.fn = "adjust_brightness" /\ IsArray(out)) =>
        \A q \in Positions(buf) :
            ValueChannel(At(heap, out, q[1], q[2])) =
                Min(255, ValueChannel(At(heap, buf, q[1], q[2])) + call.args[1])

\* The precondition of crop on a buffer of size width x height.
ValidRegion(width, height, x1, y1, x2, y2) ==
    /\ 0 <= x1 /\ x1 < x2 /\ x2 <= width
    /\ 0 <= y1 /\ y1 < y2 /\ y2 <= height
    /\ (x2 - x1) >= MinCrop /\ (y2 - y1) >= MinCrop

\* C4: crop re-validates its region itself: for every region that violates
\* 0<=x1<x2<=width, 0<=y1<y2<=height or a span of at least 10 in both axes,
\* the crop operation fails and returns no buffer.
C4_CropRejectsInvalidRegion ==
    (/\ call.fn = "crop_image"
     /\ ~ValidRegion(Width(buf), Height(buf),
                     call.args[1], call.args[2], call.args[3], call.args[4]))
        => IsRaised(out)

\* The precondition of draw_circle on a buffer of size width x height.
DiskInside(width, height, x, y, radius) ==
    /\ radius > 0
    /\ x - radius >= 0 /\ x + radius < width
    /\ y - radius >= 0 /\ y + radius < height

\* C5: draw_circle rejects every circle whose disk is not fully inside the
\* buffer: the operation fails and draws nothing.
C5_CircleRejectedOutOfBounds ==
    (/\ call.fn = "draw_circle"
     /\ ~DiskInside(Width(buf), Height(buf),
                    call.args[1], call.args[2], call.args[3]))
        => IsRaised(out)

\* What the decoder delivered for the last load_image call.
Decoded == RawFile(call.args[1])

\* The canonical pixel of a decoded pixel: the value replicated for one
\* channel, the alpha dropped for four, the pixel itself for three.
CanonicalPixel(p) ==
    CASE Len(p) = 1 -> <<p[1], p[1], p[1]>>
      [] Len(p) = 4 -> <<p[1], p[2], p[3]>>
      [] OTHER -> p

\* C8: normalize maps a 1-channel pixel V to (V, V, V), a 4-channel pixel
\* (B, G, R, A) to (B, G, R) whatever A is, and returns a 3-channel buffer
\* unchanged, so that normalizing a 3-channel buffer again changes nothing;
\* width and height are preserved.
C8_NormalizeCanonical ==
    (/\ call.fn = "load_image"
     /\ Decoded # None
     /\ Channels(Decoded) \in {1, 3, 4})
        => /\ IsCanonical(buf)
           /\ Height(buf) = Decoded.shape[1]
           /\ Width(buf) = Decoded.shape[2]
           /\ \A q \in Positions(buf) :
                At(heap, buf, q[1], q[2]) = CanonicalPixel(Decoded.px[q[1]][q[2]])
           /\ LET again == normalize(heap, buf)
              IN  /\ again.val = buf
                  /\ Contents(again.heap, again.val) = Contents(heap, buf)

\* C8 witness: a 4-channel file has been loaded and came back with 3 channels.
C8_Witness ==
    /\ call = Called("load_image", <<"rgba.png">>)
    /\ IsCanonical(buf)
    /\ Decoded.shape[3] = 4

\* C9: normalize fails for every decoded buffer whose channel count is not
\* 1, 3 or 4; no such buffer is returned to the caller as an image.
C9_UnsupportedLayoutFails ==
    (/\ call.fn = "load_image"
     /\ Decoded # None
     /\ Channels(Decoded) \notin {1, 3, 4})
        => buf = None

\* C10: extract_channel(buf, i), i in {0, 1, 2}, returns a buffer of the same
\* width and height in which channel i equals the source's channel i and the
\* other two channels are 0.
C10_ExtractChannel ==
    (call.fn = "extract_channel" /\ IsCanonical(buf)) =>
        /\ IsCanonical(out)
        /\ Height(out) = Height(buf)
        /\ Width(out) = Width(buf)
        /\ \A q \in Positions(buf) : \A k \in 1..3 :
             At(heap, out, q[1], q[2])[k] =
                 IF k = call.args[1] + 1 THEN At(heap, buf, q[1], q[2])[k] ELSE 0

\* C10 witness: the green channel of a colour buffer has been extracted and
\* is not all zero.
C10_Witness ==
    /\ call = Called("extract_channel", <<1>>)
    /\ IsCanonical(buf)
    /\ IsCanonical(out)
    /\ \E q \in Positions(out) : At(heap, out, q[1], q[2])[2] # 0

----------------------------------------------------------------------------
(* Properties of the window and its two slots, checked under Spec *)

\* The elements of a sequence.
Range(seq) == {seq[i] : i \in 1..Len(seq)}

\* C2: capture releases the camera device on every exit path: no capture
\* call ends with the device still held, and once the device has been opened
\* and a frame read attempted, release has been called when the call ends.
C2_DeviceAlwaysReleased ==
    (last.op = "capture_from_camera") =>
        /\ ~camera.held
        /\ ("read" \in Range(last.log) => "release" \in Range(last.log))

\* The four transform actions of the window.
TransformOps == {"show_channel", "crop", "brightness", "circle"}

\* C3: every transform action is all-or-nothing for the two slots: when it
\* fails at any step (validation, the transform, the display of the result)
\* the current and the processed image are what they were before.
C3_AllOrNothing ==
    [][(last'.op \in TransformOps /\ last'.outcome # "ok") =>
           (image' = image /\ processed_image' = processed_image)]_vars

\* C6: in every reachable state of the window the processed image and the
\* current image share no storage.
C6_NoAliasing ==
    (IsArray(image) /\ IsArray(processed_image)) =>
        processed_image.store # image.store

\* The pixels of a slot; nothing for an empty slot.
Pixels(h, slot) == IF IsArray(slot) THEN Contents(h, slot) ELSE None

\* C7: no transform mutates its input: over every show-channel, crop,
\* brightness and circle action, successful or failed, the current image and
\* its pixels stay what they were; only load and capture change them.
C7_InputNotMutated ==
    [][(last'.op \in TransformOps) =>
           (image' = image /\ Pixels(heap', image') = Pixels(heap, image))]_vars

\* C7 witness: a circle has been drawn, and the processed image differs from
\* the current image it was drawn from.
C7_Witness ==
    /\ last.op = "circle"
    /\ last.outcome = "ok"
    /\ IsArray(image)
    /\ IsArray(processed_image)
    /\ Contents(heap, processed_image) # Contents(heap, image)

----------------------------------------------------------------------------
(* The crop of a valid region, checked under CoreSpec *)

\* C11: for every region with 0<=x1<x2<=width, 0<=y1<y2<=height and spans of
\* at least 10, crop returns a buffer of width x2-x1 and height y2-y1 whose
\* pixel at (dx, dy) is the source pixel at (x1+dx, y1+dy).
C11_CropExact ==
    (/\ call.fn = "crop_image"
     /\ ValidRegion(Width(buf), Height(buf),
                    call.args[1], call.args[2], call.args[3], call.args[4]))
        => LET x1 == call.args[1]
               y1 == call.args[2]
               x2 == call.args[3]
               y2 == call.args[4]
           IN  /\ IsArray(out)
               /\ Width(out) = x2 - x1
               /\ Height(out) = y2 - y1
               /\ \A dy \in 0..(y2 - y1 - 1) : \A dx \in 0..(x2 - x1 - 1) :
                    At(heap, out, dy, dx) = At(heap, buf, y1 + dy, x1 + dx)

\* C11 witness: a valid region that starts below the top edge has been
\* cropped out of a buffer, and its first pixel is not the buffer's.
C11_Witness ==
    /\ call = Called("crop_image", <<0, 1, MinCrop, ImgH>>)
    /\ IsArray(out)
    /\ Height(out) = ImgH - 1
    /\ At(heap, out, 0, 0) = At(heap, buf, 1, 0)
    /\ At(heap, out, 0, 0) # At(heap, buf, 0, 0)

----------------------------------------------------------------------------
(* The current image and the acquisitions, checked under Spec *)

\* C12: in every reachable state of the window the current image is either
\* empty or a canonical buffer with exactly 3 channels, whether it came from
\* a file or from the camera.
C12_CurrentImageCanonical ==
    image = None \/ IsCanonical(image)

\* The positions of the frame reads in a log of device calls.
Reads(log) == {i \in 1..Len(log) : log[i] = "read"}

\* C13: each capture opens the device, checks that it is open, then reads
\* at most once: exactly once, right after the check, when the device is
\* open, and never when it is not (the call then fails); when the one read
\* reports failure the call fails; a frame is stored only when that one read
\* succeeded.
C13_CaptureProtocol ==
    (last.op = "capture_from_camera") =>
        LET log == last.log
            dev == last.dev
            gotFrame == last.outcome \in {"ok", "display_failed"}
        IN  /\ Len(log) >= 2
            /\ log[1] = "VideoCapture"
            /\ log[2] = "isOpened"
            /\ Cardinality(Reads(log)) <= 1
            /\ ~dev.opens => (Reads(log) = {} /\ last.outcome = "failed")
            /\ dev.opens => Reads(log) = {3}
            /\ (dev.opens /\ dev.read = "fail") => last.outcome = "failed"
            /\ gotFrame <=> (dev.opens /\ dev.read = "frame")
            /\ gotFrame => IsArray(image)

\* C13 witness: a capture on an open device whose one read reported
\* failure has ended in failure.
C13_Witness ==
    /\ last.op = "capture_from_camera"
    /\ last.dev.opens
    /\ last.dev.read = "fail"
    /\ last.outcome = "failed"
    /\ Reads(last.log) = {3}

\* The transform an action applies, with its arguments, to the image img in
\* the heap h.
Applied(h, img, op, args) ==
    CASE op = "show_channel" -> ui_extract_channel(h, img, args[1])
      [] op = "crop" -> ui_crop_image(h, img, args[1], args[2], args[3], args[4])
      [] op = "brightness" -> ui_adjust_brightness(h, img, args[1])
      [] op = "circle" -> ui_draw_circle(h, img, args[1], args[2], args[3])

\* C14: transforms do not accumulate: after every successful transform
\* action the processed image is that action's transform applied to the
\* current image alone, whatever the processed image was before; and while
\* the current image is empty every transform action is rejected and the
\* processed image stays empty.
C14_NoAccumulation ==
    [][(last'.op \in TransformOps) =>
         /\ (image = None) =>
              /\ last'.outcome = "no_image"
              /\ processed_image = None
              /\ processed_image' = None
         /\ (last'.outcome = "ok") =>
              \E r \in {Applied(Collect(heap, {image}), image, last'.op, last'.args)} :
                  /\ IsArray(r.val)
                  /\ IsArray(processed_image')
                  /\ processed_image'.shape = r.val.shape
                  /\ Contents(heap', processed_image') = Contents(r.heap, r.val)]_vars

\* C14 witness: a channel has been shown while the current image carries a
\* colour picture, and the processed image is that channel of it.
C14_Witness ==
    /\ last.op = "show_channel"
    /\ last.outcome = "ok"
    /\ last.args = <<2>>
    /\ IsCanonical(image)
    /\ IsArray(processed_image)
    /\ \E q \in Positions(image) :
         /\ At(heap, processed_image, q[1], q[2])[3] = At(heap, image, q[1], q[2])[3]
         /\ At(heap, processed_image, q[1], q[2])[3] # 0

\* The two acquisition actions of the window.
AcquisitionOps == {"load_image", "capture_from_camera"}

\* C15: a failed acquisition leaves both slots untouched: when a load fails
\* to decode its file, or a capture fails because the device is unavailable
\* or the read failed, the current and the processed image, and their
\* pixels, are what they were; a current image is never replaced by an
\* empty value.
C15_FailedAcquisitionKeepsSlots ==
    [][/\ (last'.op \in AcquisitionOps /\ last'.outcome = "failed") =>
            /\ image' = image
            /\ processed_image' = processed_image
            /\ Pixels(heap', image') = Pixels(heap, image)
            /\ Pixels(heap', processed_image') = Pixels(heap, processed_image)
       /\ IsArray(image) => IsArray(image')]_vars

\* C15 witness: a load has failed while the window held a current and a
\* processed image.
C15_Witness ==
    /\ last.op = "load_image"
    /\ last.outcome = "failed"
    /\ IsArray(image)
    /\ IsArray(processed_image)

====
